---- MODULE Spec2Model ----
(***************************************************************************)
(* Truco client: the connection manager (src/lib/socket.ts, SocketManager), *)
(* the game screen (src/lib/socket.ts, GameScreen), the lobby screen        *)
(* (src/components/truco/lobby-screen.tsx) and the application shell        *)
(* (src/unnamed/part_001, TrucoGame).                                       *)
(***************************************************************************)
EXTENDS Naturals, Sequences, FiniteSets, Bags

(* ------------------------------------------------------------------ *)
(* Bounds of the model                                                 *)
(* ------------------------------------------------------------------ *)
\* longest sequence of calls made on the connection manager's interface
MaxCalls == 4
\* acknowledgement callbacks that may be outstanding at once
MaxPending == 2
\* reconnect timers that may be scheduled and not yet expired at once
MaxTimers == 1
\* entries kept in the game screen's message log
MaxMessages == 1
\* entries of the message log, in the runs that are about the log
MaxLog == 2

(* ------------------------------------------------------------------ *)
(* State                                                               *)
(* ------------------------------------------------------------------ *)
VARIABLES
    socket,     \* SocketManager.socket: the cached handle, NoSocket when null
    created,    \* number of handles io() has returned so far
    live,       \* handles created by io() and not yet torn down by disconnect()
    calls,      \* the calls made on the manager's interface, with their results
    sockConn,   \* socket.connected of the cached handle (socket.io-client)
    listeners,  \* handlers registered with socket.on: <<event, screen>>
    currentScreen,  \* TrucoGame.currentScreen
    roomId,     \* TrucoGame.roomId
    lobby,      \* state of the mounted LobbyScreen instance
    game,       \* state of the mounted GameScreen instance
    pending,    \* bag of acknowledgement callbacks the server has not called yet
    timers,     \* bag of setTimeout callbacks of attemptReconnect not yet run
    toast,      \* the notice shown by the last step, NoToast when none
    env,        \* what the server sends and how much is outstanding in this run
    ignored,    \* the last step was a user action whose handler returned at its guard
    last        \* the handler that ran in the last step, and its argument

mgrVars == <<socket, created, live>>
appVars == <<currentScreen, roomId>>
screenVars == <<sockConn, listeners, currentScreen, roomId, lobby, game,
                pending, timers, toast, env, ignored, last>>
vars == <<socket, created, live, calls, sockConn, listeners, currentScreen, roomId,
          lobby, game, pending, timers, toast, env, ignored, last>>

\* the null of `socket: Socket | null`
NoSocket == 0

(* ------------------------------------------------------------------ *)
(* SocketManager                                                       *)
(* ------------------------------------------------------------------ *)
\* io(url, opts): a handle distinct from every handle returned before
io == created + 1

\* connect() without the `if (!this.socket)` guard: a handle per call
ConnectAlways ==
    /\ socket' = io
    /\ created' = created + 1
    /\ live' = live \cup {io}

\* SocketManager.connect(): create and cache the handle when there is none
SocketManager_connect ==
    IF socket = NoSocket
    THEN /\ socket' = io
         /\ created' = created + 1
         /\ live' = live \cup {io}
    ELSE UNCHANGED <<socket, created, live>>

\* disconnect() that tears the handle down and keeps it cached
DisconnectKeepsCache ==
    IF socket # NoSocket
    THEN /\ live' = live \ {socket}
         /\ UNCHANGED <<socket, created>>
    ELSE UNCHANGED <<socket, created, live>>

\* disconnect() that clears the cache and leaves the handle open
DisconnectLeavesOpen ==
    IF socket # NoSocket
    THEN /\ socket' = NoSocket
         /\ UNCHANGED <<created, live>>
    ELSE UNCHANGED <<socket, created, live>>

\* SocketManager.disconnect(): socket.disconnect() and socket = null
SocketManager_disconnect ==
    IF socket # NoSocket
    THEN /\ live' = live \ {socket}
         /\ socket' = NoSocket
         /\ UNCHANGED created
    ELSE UNCHANGED <<socket, created, live>>

\* getSocket() that returns the handle created last, cached or not
GetSocketLastCreated == created

\* SocketManager.getSocket(): the cached handle or null
SocketManager_getSocket == socket

(* One call on the exported socketManager, by any client of the module.   *)
(* The record keeps the value returned (for disconnect(): the handle that *)
(* was cached when it was called) and the state the call left behind.     *)
CallRecord(op, ret) ==
    [op |-> op, ret |-> ret, created |-> created', live |-> live']

CallConnect ==
    /\ Len(calls) < MaxCalls
    /\ SocketManager_connect
    /\ calls' = Append(calls, CallRecord("connect", socket'))
    /\ UNCHANGED screenVars

CallDisconnect ==
    /\ Len(calls) < MaxCalls
    /\ SocketManager_disconnect
    /\ calls' = Append(calls, CallRecord("disconnect", socket))
    /\ UNCHANGED screenVars

CallGetSocket ==
    /\ Len(calls) < MaxCalls
    /\ UNCHANGED mgrVars
    /\ calls' = Append(calls, CallRecord("getSocket", SocketManager_getSocket))
    /\ UNCHANGED screenVars

(* ------------------------------------------------------------------ *)
(* Values exchanged with the server                                    *)
(* ------------------------------------------------------------------ *)
\* socket.id of the handle once connected
MyId == "P1"
PlayerIds == {"P1", "P2"}
RoomIds == {"R1", "R2"}
\* response.code of a room:create acknowledgement; "" stands for an absent code
Codes == {"", "ABC123"}
\* response.error of a failed acknowledgement; "" stands for an absent message
ServerErrors == {"", "denied"}

\* room: Room | null
NoRoom == [status |-> "", playerCount |-> 0, players |-> <<>>]
Ana == [id |-> "P1", name |-> "Ana", connected |-> TRUE]
Beto == [id |-> "P2", name |-> "Beto", connected |-> FALSE]
Rooms ==
    { [status |-> "waiting", playerCount |-> 1, players |-> <<Ana>>],
      [status |-> "playing", playerCount |-> 2, players |-> <<Ana, Beto>>] }

\* Partial<GameState>: a function from the fields that are present
Fields == {"turnPlayerId", "phase"}
FieldValues(f) == IF f = "turnPlayerId" THEN PlayerIds ELSE {"playing"}
PartialGameStates ==
    UNION { {g \in [D -> PlayerIds \cup {"playing"}] : \A f \in D : g[f] \in FieldValues(f)}
            : D \in SUBSET Fields }
\* gameState.turnPlayerId, "undefined" when the field is absent
TurnPlayerId(g) == IF "turnPlayerId" \in DOMAIN g THEN g["turnPlayerId"] ELSE "undefined"

\* Card[] as pushed by the server
Hands == {<<>>, <<"c1">>, <<"c1", "c2">>, <<"c2", "c1">>}

\* the game:message payloads
GameMessages == {[type |-> "truco", text |-> "Truco"]}
Message(type, text) == [type |-> type, text |-> text]

\* toast({title, description})
NoToast == [title |-> "", description |-> ""]
Toast(title, description) == [title |-> title, description |-> description]

\* the handler that ran in a step and what it was called with
Handled(op, arg) == [op |-> op, arg |-> arg]

\* a || b on strings
OrElse(a, b) == IF a # "" THEN a ELSE b

(* ------------------------------------------------------------------ *)
(* Screen instances, listeners, callbacks                              *)
(* ------------------------------------------------------------------ *)
GameEvents ==
    {"connect", "disconnect", "room:update", "game:update", "game:hand",
     "game:message", "game:ended", "error"}
LobbyEvents == {"connect", "disconnect", "room:update", "rooms:list", "match:found"}

\* socket.on(event, handler) for every event of a screen
On(ls, events, screen) == ls \cup {<<e, screen>> : e \in events}
\* a cleanup without its socket.off("error") line
OffButError(ls, events) == {l \in ls : l[1] \notin events \ {"error"}}

\* socket.off(event): removes every handler of the event
Off(ls, events) == {l \in ls : l[1] \notin events}
Hears(screen, event) == <<event, screen>> \in listeners

\* actionInProgress: string | null
NoAction == ""

GameInit ==
    [room |-> NoRoom, gameState |-> <<>>, playerHand |-> <<>>, messages |-> <<>>,
     connected |-> FALSE, currentPlayerId |-> "", reconnecting |-> FALSE,
     actionInProgress |-> NoAction, reconnectAttempts |-> 0]

LobbyInit ==
    [joinRoomId |-> "", createdRoomId |-> "", createdRoomCode |-> "",
     waitingRooms |-> <<>>, connected |-> FALSE, loading |-> FALSE,
     quickMatchLoading |-> FALSE]

\* an acknowledgement callback: which handler's closure, whether the screen
\* instance it belongs to is still mounted (the setState of an unmounted
\* instance does nothing), and the `connected` that closure captured
Callback(cb, seen) == [cb |-> cb, alive |-> TRUE, seen |-> seen]
Emit(bag, r) == bag (+) SetToBag({r})
Drop(bag, r) == bag (-) SetToBag({r})
CanEmit == BagCardinality(pending) < env.maxPending

\* the closures of a screen instance that goes away stay with the library
\* and the timer queue; mine is the set of the instance's closures in the bag
Orphan(r) == [r EXCEPT !.alive = FALSE]
Copies(bag, r) == IF r \in DOMAIN bag THEN bag[r] ELSE 0
Unmounted(bag, mine) ==
    LET Left(r) == IF r \in mine THEN Orphan(r) ELSE r
        Twin(x) == [x EXCEPT !.alive = TRUE]
    IN [x \in {Left(r) : r \in BagToSet(bag)} |->
          (IF Left(x) = x THEN Copies(bag, x) ELSE 0)
          + (IF Twin(x) # x /\ Twin(x) \in mine THEN Copies(bag, Twin(x)) ELSE 0)]
LobbyCallbacks == {"create", "rooms", "quick", "join-code"}
OfLobby == {r \in BagToSet(pending) : r.cb \in LobbyCallbacks}
OfGame == {r \in BagToSet(pending) : r.cb \notin LobbyCallbacks}
AnyTimer == BagToSet(timers)

\* socket.id || ""
SocketId(connected) == IF connected THEN MyId ELSE ""

(* ------------------------------------------------------------------ *)
(* TrucoGame: the application shell, and the mounting of screens       *)
(* ------------------------------------------------------------------ *)
\* LobbyScreen is rendered first: useState initial values, then the useEffect body,
\* after the cleanup of the screen it replaces (ls: the handlers left)
MountLobby(ls) ==
    /\ SocketManager_connect
    /\ listeners' = On(ls, LobbyEvents, "lobby")
    /\ lobby' = LobbyInit

\* GameScreen is rendered first: useState initial values, then the useEffect body
MountGame(ls) ==
    /\ SocketManager_connect
    /\ listeners' = On(ls, GameEvents, "game")
    /\ game' = [GameInit EXCEPT !.currentPlayerId = SocketId(sockConn)]

\* TrucoGame.handleStartGame: the start screen's onStart
TrucoGame_handleStartGame ==
    /\ currentScreen = "start"
    /\ currentScreen' = "lobby"
    /\ MountLobby(listeners)
    /\ toast' = NoToast
    /\ last' = Handled("TrucoGame_handleStartGame", <<>>)
    /\ ignored' = FALSE
    /\ UNCHANGED <<roomId, sockConn, game, pending, timers, calls, env>>

\* the lobby's onBack: () => setCurrentScreen("start")
TrucoGame_onBack ==
    /\ currentScreen = "lobby"
    /\ currentScreen' = "start"
    /\ listeners' = Off(listeners, LobbyEvents)
    /\ lobby' = LobbyInit
    /\ pending' = Unmounted(pending, OfLobby)
    /\ toast' = NoToast
    /\ last' = Handled("TrucoGame_onBack", <<>>)
    /\ ignored' = FALSE
    /\ UNCHANGED <<mgrVars, roomId, sockConn, game, timers, calls, env>>

\* TrucoGame.handleBackToLobby: the game screen's onBack
TrucoGame_handleBackToLobby ==
    /\ currentScreen = "game"
    /\ currentScreen' = "lobby"
    /\ MountLobby(Off(listeners, GameEvents))
    /\ game' = GameInit
    /\ pending' = Unmounted(pending, OfGame)
    /\ timers' = Unmounted(timers, AnyTimer)
    /\ toast' = NoToast
    /\ last' = Handled("TrucoGame_handleBackToLobby", <<>>)
    /\ ignored' = FALSE
    /\ UNCHANGED <<roomId, sockConn, calls, env>>

\* TrucoGame.handleJoinRoom(id): setRoomId(id); setCurrentScreen("game").
\* With the game screen already current only its props change: the effect
\* runs again when roomId differs, the component state stays.
TrucoGame_handleJoinRoom(id) ==
    /\ roomId' = id
    /\ currentScreen' = "game"
    /\ IF currentScreen = "game"
       THEN /\ game' = IF id # roomId
                       THEN [game EXCEPT !.currentPlayerId = SocketId(sockConn)]
                       ELSE game
            /\ UNCHANGED <<mgrVars, listeners, lobby>>
       ELSE /\ MountGame(Off(listeners, LobbyEvents))
            /\ lobby' = LobbyInit

(* ------------------------------------------------------------------ *)
(* GameScreen: connection events and the reconnect loop                *)
(* ------------------------------------------------------------------ *)
maxReconnectAttempts == 5
BaseDelayMs == 1000
MaxDelayMs == 10000

RECURSIVE Pow2(_)
Pow2(n) == IF n = 0 THEN 1 ELSE 2 * Pow2(n - 1)
Min(a, b) == IF a <= b THEN a ELSE b

\* the delay computed from the counter after its increment
ReconnectDelay(attempts) == Min(BaseDelayMs * Pow2(attempts), MaxDelayMs)

\* a setRoom that keeps a room the screen already holds
SetRoomIfNone(g, r) ==
    [g EXCEPT !.room = IF @ = NoRoom THEN r ELSE @,
              !.currentPlayerId = SocketId(sockConn)]

\* setRoom(r): room?.players is a dependency of the effect, which runs again
\* and sets currentPlayerId from socket.id
SetRoom(g, r) == [g EXCEPT !.room = r, !.currentPlayerId = SocketId(sockConn)]

\* a connect handler without `reconnectAttempts.current = 0`
ConnectedKeepsCounter(g) == [g EXCEPT !.connected = TRUE, !.reconnecting = FALSE]

\* setConnected(true); setReconnecting(false); reconnectAttempts.current = 0
Connected(g) ==
    [g EXCEPT !.connected = TRUE, !.reconnecting = FALSE, !.reconnectAttempts = 0]

\* socket.on("connect") of the game screen
GameOnConnect ==
    /\ socket # NoSocket
    /\ ~sockConn
    /\ Hears("game", "connect")
    /\ CanEmit
    /\ sockConn' = TRUE
    /\ game' = Connected(game)
    /\ pending' = Emit(pending, Callback("join", FALSE))
    /\ toast' = NoToast
    /\ last' = Handled("GameOnConnect", <<>>)
    /\ ignored' = FALSE
    /\ UNCHANGED <<mgrVars, appVars, listeners, lobby, timers, calls, env>>

\* the acknowledgement of the connect handler's player:join; response.gameState
\* and response.hand may be absent
GameJoinAck ==
    \E r \in BagToSet(pending), success \in BOOLEAN, error \in ServerErrors,
       room \in env.rooms, hasGameState \in BOOLEAN, gameState \in env.states \cup {<<>>},
       hasHand \in BOOLEAN, hand \in env.hands \cup {<<>>} :
        /\ r.cb = "join"
        /\ sockConn
        /\ success => error = ""
        /\ ~success => (room = CHOOSE x \in env.rooms : TRUE) /\ ~hasGameState /\ ~hasHand
        /\ ~hasGameState => gameState = <<>>
        /\ ~hasHand => hand = <<>>
        /\ pending' = Drop(pending, r)
        /\ IF success
           THEN /\ game' = IF r.alive
                           THEN [SetRoom(game, room) EXCEPT
                                    !.gameState = IF hasGameState THEN gameState ELSE @,
                                    !.playerHand = IF hasHand THEN hand ELSE @]
                           ELSE game
                /\ toast' = NoToast
           ELSE /\ toast' = Toast("Error", OrElse(error, "No se pudo unir a la sala"))
                /\ UNCHANGED game
        /\ last' = Handled("GameJoinAck", [success |-> success, alive |-> r.alive])
        /\ ignored' = FALSE
        /\ UNCHANGED <<mgrVars, appVars, sockConn, listeners, lobby, timers, calls, env>>

\* the toast of attemptReconnect when it gives up
TerminalNotice ==
    Toast("Error de conexion", "No se pudo reconectar al servidor. Intenta recargar la pagina.")

\* attemptReconnect(), on the state g of the game screen; a timer carries the
\* delay it was set with and the value the counter had when it was set
ReconnectExhausted(g) == g.reconnectAttempts >= maxReconnectAttempts
AttemptReconnect(g) ==
    IF ReconnectExhausted(g)
    THEN /\ toast' = TerminalNotice
         /\ game' = g
         /\ UNCHANGED timers
    ELSE /\ BagCardinality(timers) < env.maxTimers
         /\ toast' = NoToast
         /\ game' = [g EXCEPT !.reconnecting = TRUE,
                              !.reconnectAttempts = g.reconnectAttempts + 1]
         /\ timers' = Emit(timers, [alive |-> TRUE,
                                    attempt |-> g.reconnectAttempts + 1,
                                    delay |-> ReconnectDelay(g.reconnectAttempts + 1)])

ServerDisconnect == "io server disconnect"
DisconnectReasons == {"io server disconnect", "transport close"}

\* a disconnect handler that calls attemptReconnect() whatever the reason
DisconnectAlwaysRetries(reason) ==
    /\ Hears("game", "disconnect")
    /\ sockConn' = FALSE
    /\ AttemptReconnect([game EXCEPT !.connected = FALSE])
    /\ last' = Handled("disconnect", reason)
    /\ ignored' = FALSE
    /\ UNCHANGED <<mgrVars, appVars, listeners, lobby, pending, calls, env>>

\* socket.on("disconnect") of the game screen
GameDisconnectHandler(reason) ==
    /\ Hears("game", "disconnect")
    /\ sockConn' = FALSE
    /\ IF reason = ServerDisconnect
       THEN AttemptReconnect([game EXCEPT !.connected = FALSE])
       ELSE /\ game' = [game EXCEPT !.connected = FALSE]
            /\ toast' = NoToast
            /\ UNCHANGED timers
    /\ last' = Handled("disconnect", reason)
    /\ ignored' = FALSE
    /\ UNCHANGED <<mgrVars, appVars, listeners, lobby, pending, calls, env>>

\* the library emits "disconnect" on a connected handle
GameOnDisconnect ==
    \E reason \in DisconnectReasons :
        /\ sockConn
        /\ GameDisconnectHandler(reason)

\* the setTimeout callback of attemptReconnect: it runs whether or not the
\* screen that scheduled it is still mounted
ReconnectTimerFires ==
    \E t \in BagToSet(timers) :
        /\ CanEmit
        /\ timers' = Drop(timers, t)
        /\ SocketManager_connect
        /\ pending' = Emit(pending, [Callback("rejoin", FALSE) EXCEPT !.alive = t.alive])
        /\ toast' = NoToast
        /\ last' = Handled("ReconnectTimerFires", <<>>)
        /\ ignored' = FALSE
        /\ UNCHANGED <<appVars, sockConn, listeners, lobby, game, calls, env>>

\* the acknowledgement of attemptReconnect's player:join
GameRejoinAck ==
    \E r \in BagToSet(pending), success \in BOOLEAN, room \in env.rooms :
        /\ r.cb = "rejoin"
        /\ sockConn
        /\ ~success => room = CHOOSE x \in env.rooms : TRUE
        /\ pending' = Drop(pending, r)
        /\ IF success
           THEN /\ game' = IF r.alive
                           THEN [SetRoom(game, room) EXCEPT !.reconnecting = FALSE,
                                                            !.reconnectAttempts = 0]
                           ELSE game
                /\ toast' = Toast("Reconectado", "Te has reconectado exitosamente al juego.")
           ELSE /\ toast' = NoToast
                /\ UNCHANGED game
        /\ last' = Handled("GameRejoinAck", [success |-> success, alive |-> r.alive])
        /\ ignored' = FALSE
        /\ UNCHANGED <<mgrVars, appVars, sockConn, listeners, lobby, timers, calls, env>>

(* ------------------------------------------------------------------ *)
(* GameScreen: server pushes                                           *)
(* ------------------------------------------------------------------ *)
\* setMessages((prev) => [m, ...prev])
PrependMessage(g, m) == [g EXCEPT !.messages = <<m>> \o g.messages]

\* setMessages((prev) => [...prev, m])
AppendMessage(g, m) == [g EXCEPT !.messages = Append(g.messages, m)]
LogHasRoom == Len(game.messages) < env.maxMessages

\* players.find(test): the first player that passes, NoPlayer when none does
NoPlayer == [id |-> "", name |-> "", connected |-> FALSE]
RECURSIVE FindPlayer(_, _, _)
FindPlayer(players, passing, i) ==
    IF i > Len(players) THEN NoPlayer
    ELSE IF players[i] \in passing THEN players[i]
    ELSE FindPlayer(players, passing, i + 1)
\* the players a test of find lets pass
Range(players) == {players[i] : i \in 1..Len(players)}
IsDisconnected(players) == {p \in Range(players) : ~p.connected}
IsWinner(players, winnerId) == {p \in Range(players) : p.id = winnerId}

\* a push reaches a handler only on a connected handle
Pushed(event) == socket # NoSocket /\ sockConn /\ Hears("game", event)

\* socket.on("room:update") of the game screen
GameOnRoomUpdate ==
    \E updatedRoom \in env.rooms :
        /\ Pushed("room:update")
        /\ LET disconnectedPlayer == FindPlayer(updatedRoom.players,
                                                    IsDisconnected(updatedRoom.players), 1)
           IN IF disconnectedPlayer # NoPlayer
              THEN /\ LogHasRoom
                   /\ game' = AppendMessage(SetRoom(game, updatedRoom),
                                 Message("info", disconnectedPlayer.name \o " se desconecto"))
              ELSE game' = SetRoom(game, updatedRoom)
        /\ toast' = NoToast
        /\ last' = Handled("GameOnRoomUpdate", updatedRoom)
        /\ ignored' = FALSE
        /\ UNCHANGED <<mgrVars, appVars, sockConn, listeners, lobby, pending, timers, calls, env>>

\* {...prev, ...updated} with prev and updated swapped
MergePrevWins(prev, updated) ==
    [f \in DOMAIN prev \cup DOMAIN updated |->
        IF f \in DOMAIN prev THEN prev[f] ELSE updated[f]]

\* {...prev, ...updated}
Merge(prev, updated) ==
    [f \in DOMAIN prev \cup DOMAIN updated |->
        IF f \in DOMAIN updated THEN updated[f] ELSE prev[f]]

\* socket.on("game:update")
GameOnGameUpdate ==
    \E updatedGameState \in env.states :
        /\ Pushed("game:update")
        /\ game' = [game EXCEPT !.gameState = Merge(game.gameState, updatedGameState),
                                !.actionInProgress = NoAction]
        /\ toast' = NoToast
        /\ last' = Handled("GameOnGameUpdate", updatedGameState)
        /\ ignored' = FALSE
        /\ UNCHANGED <<mgrVars, appVars, sockConn, listeners, lobby, pending, timers, calls, env>>

\* setPlayerHand that appends the pushed cards to the hand held
HandAppended(prev, hand) == prev \o hand

\* setPlayerHand(hand)
HandReplaced(prev, hand) == hand

\* socket.on("game:hand")
GameOnHand ==
    \E hand \in env.hands :
        /\ Pushed("game:hand")
        /\ game' = [game EXCEPT !.playerHand = HandReplaced(game.playerHand, hand)]
        /\ toast' = NoToast
        /\ last' = Handled("GameOnHand", hand)
        /\ ignored' = FALSE
        /\ UNCHANGED <<mgrVars, appVars, sockConn, listeners, lobby, pending, timers, calls, env>>

\* socket.on("game:message")
GameOnMessage ==
    \E message \in GameMessages :
        /\ Pushed("game:message")
        /\ LogHasRoom
        /\ game' = AppendMessage(game, message)
        /\ toast' = NoToast
        /\ last' = Handled("GameOnMessage", message)
        /\ ignored' = FALSE
        /\ UNCHANGED <<mgrVars, appVars, sockConn, listeners, lobby, pending, timers, calls, env>>

\* scores[winnerId] as printed in the message
Scores == {"15"}

\* socket.on("game:ended")
GameOnEnded ==
    \E winnerId \in PlayerIds, score \in Scores :
        /\ Pushed("game:ended")
        /\ LET winner == FindPlayer(game.room.players,
                                    IsWinner(game.room.players, winnerId), 1)
           IN IF winner # NoPlayer
              THEN /\ LogHasRoom
                   /\ game' = [AppendMessage(game,
                                  Message("winner", "Partida terminada! " \o winner.name
                                                    \o " gano con " \o score \o " puntos"))
                               EXCEPT !.actionInProgress = NoAction]
                   /\ toast' = Toast("Partida terminada", winner.name \o " gano la partida")
              ELSE /\ game' = [game EXCEPT !.actionInProgress = NoAction]
                   /\ toast' = NoToast
        /\ last' = Handled("GameOnEnded", winnerId)
        /\ ignored' = FALSE
        /\ UNCHANGED <<mgrVars, appVars, sockConn, listeners, lobby, pending, timers, calls, env>>

\* a log entry that leaves the pushed message out
ErrorEntryWithoutMessage(message) == Message("info", "Error")

\* { type: "info", text: `Error: ${message}` }
ErrorEntry(message) == Message("info", "Error: " \o message)

\* socket.on("error")
GameOnError ==
    \E message \in ServerErrors \ {""} :
        /\ Pushed("error")
        /\ LogHasRoom
        /\ game' = [AppendMessage(game, ErrorEntry(message))
                    EXCEPT !.actionInProgress = NoAction]
        /\ toast' = Toast("Error", message)
        /\ last' = Handled("GameOnError", message)
        /\ ignored' = FALSE
        /\ UNCHANGED <<mgrVars, appVars, sockConn, listeners, lobby, pending, timers, calls, env>>

(* ------------------------------------------------------------------ *)
(* GameScreen: user actions and their acknowledgements                 *)
(* ------------------------------------------------------------------ *)
EnvidoTypes == {"envido", "real_envido", "falta_envido"}
ActionLabels ==
    {"starting", "playing-card", "calling-truco", "calling-flor", "skipping-phase",
     "accepting-call", "rejecting-call"} \cup {"calling-" \o type : type \in EnvidoTypes}

\* the description shown when a failed acknowledgement carries no message
Fallback(label) ==
    CASE label = "starting" -> "No se pudo iniciar la partida"
      [] label = "playing-card" -> "No se pudo jugar la carta"
      [] label = "calling-truco" -> "No se pudo cantar truco"
      [] label = "calling-flor" -> "No se pudo cantar flor"
      [] label = "skipping-phase" -> "No se pudo pasar la fase"
      [] label = "accepting-call" -> "No se pudo aceptar la jugada"
      [] label = "rejecting-call" -> "No se pudo rechazar la jugada"
      [] OTHER -> "No se pudo cantar envido"

\* `socket && !actionInProgress` without the second conjunct
MaySendUnguarded(extra) == socket # NoSocket /\ extra

\* the guard of every action handler: `socket && !actionInProgress`, and for
\* handlePlayCard also `gameState.turnPlayerId === currentPlayerId`
MaySend(extra) == socket # NoSocket /\ game.actionInProgress = NoAction /\ extra

\* a handler that also takes the played card out of the hand before the
\* server has answered
SetActionOptimistic(g, label) ==
    [g EXCEPT !.actionInProgress = label,
              !.playerHand = IF label = "playing-card" /\ Len(@) > 0 THEN Tail(@) ELSE @]

\* setActionInProgress(label)
SetAction(g, label) == [g EXCEPT !.actionInProgress = label]

\* the body shared by the action handlers: set the flag and emit, or do nothing
ActionHandler(label, extra) ==
    /\ currentScreen = "game"
    /\ IF MaySend(extra)
       THEN /\ CanEmit
            /\ game' = SetAction(game, label)
            /\ pending' = Emit(pending, Callback(label, FALSE))
       ELSE UNCHANGED <<game, pending>>
    /\ toast' = NoToast
    /\ last' = Handled("ActionHandler", <<>>)
    /\ ignored' = ~MaySend(extra)
    /\ UNCHANGED <<mgrVars, appVars, sockConn, listeners, lobby, timers, calls, env>>

handleStartGame == ActionHandler("starting", TRUE)
\* handlePlayCard without `gameState.turnPlayerId === currentPlayerId`
handlePlayCardAnyTurn ==
    \E cardId \in {"c1", "c2"} : ActionHandler("playing-card", TRUE)

\* GameScreen.handlePlayCard(cardId)
handlePlayCard ==
    \E cardId \in {"c1", "c2"} :
        ActionHandler("playing-card", TurnPlayerId(game.gameState) = game.currentPlayerId)
handleCallTruco == ActionHandler("calling-truco", TRUE)
handleCallEnvido == \E type \in EnvidoTypes : ActionHandler("calling-" \o type, TRUE)
handleCallFlor == ActionHandler("calling-flor", TRUE)
handleSkipPhase == ActionHandler("skipping-phase", TRUE)
handleAcceptCall == ActionHandler("accepting-call", TRUE)
handleRejectCall == ActionHandler("rejecting-call", TRUE)

\* an acknowledgement callback that calls setActionInProgress(null) only in
\* its success branch
AckClearsOnSuccess(g, success) ==
    IF success THEN [g EXCEPT !.actionInProgress = NoAction] ELSE g

\* setActionInProgress(null), the last statement of every acknowledgement
\* callback, after the `if (!response.success)` block
AckClears(g, success) == [g EXCEPT !.actionInProgress = NoAction]

\* the acknowledgement callback of an action handler
GameActionAck ==
    \E r \in BagToSet(pending), success \in BOOLEAN, error \in ServerErrors :
        /\ r.cb \in ActionLabels
        /\ sockConn
        /\ success => error = ""
        /\ pending' = Drop(pending, r)
        /\ toast' = IF success THEN NoToast ELSE Toast("Error", OrElse(error, Fallback(r.cb)))
        /\ game' = IF r.alive
                   THEN AckClears(game, success)
                   ELSE game
        /\ last' = Handled("GameActionAck", [success |-> success, alive |-> r.alive,
                                              cb |-> r.cb, error |-> error])
        /\ ignored' = FALSE
        /\ UNCHANGED <<mgrVars, appVars, sockConn, listeners, lobby, timers, calls, env>>

(* ------------------------------------------------------------------ *)
(* LobbyScreen                                                         *)
(* ------------------------------------------------------------------ *)
\* the rooms:list payloads
WaitingRoomLists == {<<>>, <<"R1">>}

\* fetchWaitingRooms() of a render in which `connected` was seen: the bag of
\* callbacks after its emit
FetchWaitingRooms(bag, seen, alive) ==
    IF socket # NoSocket /\ seen
    THEN Emit(bag, [Callback("rooms", FALSE) EXCEPT !.alive = alive])
    ELSE bag

\* socket.on("connect") of the lobby; its fetchWaitingRooms is the one of the
\* render that ran the effect, where connected was false
LobbyOnConnect ==
    /\ socket # NoSocket
    /\ ~sockConn
    /\ Hears("lobby", "connect")
    /\ sockConn' = TRUE
    /\ lobby' = [lobby EXCEPT !.connected = TRUE]
    /\ pending' = FetchWaitingRooms(pending, FALSE, TRUE)
    /\ toast' = NoToast
    /\ last' = Handled("LobbyOnConnect", <<>>)
    /\ ignored' = FALSE
    /\ UNCHANGED <<mgrVars, appVars, listeners, game, timers, calls, env>>

\* the `connected` that the closures of the effect hold: the one of the
\* render that ran the effect, the first of the instance
EffectSeesConnected == LobbyInit.connected

\* the callback of setInterval(fetchWaitingRooms, 10000), cleared by the
\* cleanup of the effect; the model leaves the length of the period out
LobbyPollTick ==
    /\ currentScreen = "lobby"
    /\ pending' = FetchWaitingRooms(pending, EffectSeesConnected, TRUE)
    /\ toast' = NoToast
    /\ last' = Handled("LobbyPollTick", <<>>)
    /\ ignored' = FALSE
    /\ UNCHANGED <<mgrVars, appVars, sockConn, listeners, lobby, game, timers, calls, env>>

\* socket.on("room:update") of the lobby
LobbyOnRoomUpdate ==
    /\ socket # NoSocket /\ sockConn
    /\ Hears("lobby", "room:update")
    /\ pending' = FetchWaitingRooms(pending, EffectSeesConnected, TRUE)
    /\ toast' = NoToast
    /\ last' = Handled("LobbyOnRoomUpdate", <<>>)
    /\ ignored' = FALSE
    /\ UNCHANGED <<mgrVars, appVars, sockConn, listeners, lobby, game, timers, calls, env>>

\* socket.on("disconnect") of the lobby
LobbyOnDisconnect ==
    /\ sockConn
    /\ Hears("lobby", "disconnect")
    /\ sockConn' = FALSE
    /\ lobby' = [lobby EXCEPT !.connected = FALSE]
    /\ toast' = NoToast
    /\ last' = Handled("LobbyOnDisconnect", <<>>)
    /\ ignored' = FALSE
    /\ UNCHANGED <<mgrVars, appVars, listeners, game, pending, timers, calls, env>>

\* the handle connects or disconnects while no screen listens (start screen)
ConnectUnheard ==
    /\ socket # NoSocket
    /\ ~sockConn
    /\ ~Hears("lobby", "connect") /\ ~Hears("game", "connect")
    /\ sockConn' = TRUE
    /\ toast' = NoToast
    /\ last' = Handled("ConnectUnheard", <<>>)
    /\ ignored' = FALSE
    /\ UNCHANGED <<mgrVars, appVars, listeners, lobby, game, pending, timers, calls, env>>

DisconnectUnheard ==
    /\ sockConn
    /\ ~Hears("lobby", "disconnect") /\ ~Hears("game", "disconnect")
    /\ sockConn' = FALSE
    /\ toast' = NoToast
    /\ last' = Handled("DisconnectUnheard", <<>>)
    /\ ignored' = FALSE
    /\ UNCHANGED <<mgrVars, appVars, listeners, lobby, game, pending, timers, calls, env>>

\* what the user types in the code field, and String.prototype.toUpperCase
\* and trim on those texts
TypedTexts == {"", " ", "abc123"}
ToUpperCase(text) == IF text = "abc123" THEN "ABC123" ELSE text
Trim(text) == IF text = " " THEN "" ELSE text

\* the buttons of the lobby as rendered: shown, and not disabled
CreateEnabled == lobby.createdRoomId = "" /\ lobby.connected /\ ~lobby.loading
QuickMatchEnabled == lobby.connected /\ ~lobby.quickMatchLoading
JoinByCodeEnabled == Trim(lobby.joinRoomId) # "" /\ lobby.connected

\* LobbyScreen.handleCreateRoom
handleCreateRoom ==
    /\ currentScreen = "lobby"
    /\ IF socket = NoSocket
       THEN UNCHANGED <<lobby, pending>>
       ELSE /\ CanEmit
            /\ lobby' = [lobby EXCEPT !.loading = TRUE]
            /\ pending' = Emit(pending, Callback("create", lobby.connected))
    /\ toast' = NoToast
    /\ last' = Handled("handleCreateRoom", [enabled |-> CreateEnabled])
    /\ ignored' = (socket = NoSocket)
    /\ UNCHANGED <<mgrVars, appVars, sockConn, listeners, game, timers, calls, env>>

\* the success branch that leaves out setCreatedRoomCode
CreatedRoomWithoutCode(l, id, code) ==
    [l EXCEPT !.loading = FALSE, !.createdRoomId = id]

\* setLoading(false); setCreatedRoomId(response.roomId);
\* setCreatedRoomCode(response.code || "")
CreatedRoom(l, id, code) ==
    [l EXCEPT !.loading = FALSE, !.createdRoomId = id, !.createdRoomCode = OrElse(code, "")]

\* the acknowledgement callback of handleCreateRoom
LobbyCreateAck ==
    \E r \in BagToSet(pending), success \in BOOLEAN, id \in RoomIds, code \in Codes,
       error \in ServerErrors :
        /\ r.cb = "create"
        /\ sockConn
        /\ success => error = ""
        /\ ~success => (id = CHOOSE x \in RoomIds : TRUE) /\ code = ""
        /\ lobby' = IF ~r.alive THEN lobby
                    ELSE IF success
                    THEN CreatedRoom(lobby, id, code)
                    ELSE [lobby EXCEPT !.loading = FALSE]
        /\ pending' = IF success
                      THEN FetchWaitingRooms(Drop(pending, r), r.seen, r.alive)
                      ELSE Drop(pending, r)
        /\ toast' = NoToast
        /\ last' = Handled("LobbyCreateAck", [success |-> success, alive |-> r.alive,
                                               roomId |-> id, code |-> code,
                                               error |-> error])
        /\ ignored' = FALSE
        /\ UNCHANGED <<mgrVars, appVars, sockConn, listeners, game, timers, calls, env>>

\* the acknowledgement callback of fetchWaitingRooms
LobbyRoomsAck ==
    \E r \in BagToSet(pending), success \in BOOLEAN, rooms \in WaitingRoomLists :
        /\ r.cb = "rooms"
        /\ sockConn
        /\ ~success => rooms = <<>>
        /\ pending' = Drop(pending, r)
        /\ lobby' = IF success /\ r.alive
                    THEN [lobby EXCEPT !.waitingRooms = rooms]
                    ELSE lobby
        /\ toast' = NoToast
        /\ last' = Handled("LobbyRoomsAck", [success |-> success, alive |-> r.alive])
        /\ ignored' = FALSE
        /\ UNCHANGED <<mgrVars, appVars, sockConn, listeners, game, timers, calls, env>>

\* socket.on("rooms:list") of the lobby
LobbyOnRoomsList ==
    \E rooms \in WaitingRoomLists :
        /\ socket # NoSocket /\ sockConn
        /\ Hears("lobby", "rooms:list")
        /\ lobby' = [lobby EXCEPT !.waitingRooms = rooms]
        /\ toast' = NoToast
        /\ last' = Handled("LobbyOnRoomsList", rooms)
        /\ ignored' = FALSE
        /\ UNCHANGED <<mgrVars, appVars, sockConn, listeners, game, pending, timers, calls, env>>

\* LobbyScreen.handleJoinRoom(room.id), the "Unirse" button of a listed room
LobbyScreen_handleJoinRoom ==
    \E i \in 1..Len(lobby.waitingRooms) :
        /\ currentScreen = "lobby"
        /\ TrucoGame_handleJoinRoom(lobby.waitingRooms[i])
        /\ pending' = Unmounted(pending, OfLobby)
        /\ toast' = NoToast
        /\ last' = Handled("LobbyScreen_handleJoinRoom", <<>>)
        /\ ignored' = FALSE
        /\ UNCHANGED <<sockConn, timers, calls, env>>

\* what the "Crear Sala" card renders as access code: nothing while
\* createdRoomId is empty, else createdRoomCode || createdRoomId
DisplayedCode ==
    IF lobby.createdRoomId = "" THEN "" ELSE OrElse(lobby.createdRoomCode, lobby.createdRoomId)

\* LobbyScreen.handleJoinCreatedRoom, the "Entrar a la Sala" button
handleJoinCreatedRoom ==
    /\ currentScreen = "lobby"
    /\ lobby.createdRoomId # ""
    /\ TrucoGame_handleJoinRoom(lobby.createdRoomId)
    /\ pending' = Unmounted(pending, OfLobby)
    /\ toast' = NoToast
    /\ last' = Handled("handleJoinCreatedRoom", <<>>)
    /\ ignored' = FALSE
    /\ UNCHANGED <<sockConn, timers, calls, env>>

\* onJoinRoom(id) called by a closure of the lobby, mounted or not: the
\* shell navigates, and a lobby that is on screen goes away
OnJoinRoom(id, bag) ==
    /\ TrucoGame_handleJoinRoom(id)
    /\ pending' = Unmounted(bag, OfLobby)

\* LobbyScreen.handleQuickMatch
handleQuickMatch ==
    /\ currentScreen = "lobby"
    /\ IF socket = NoSocket
       THEN UNCHANGED <<lobby, pending>>
       ELSE /\ CanEmit
            /\ lobby' = [lobby EXCEPT !.quickMatchLoading = TRUE]
            /\ pending' = Emit(pending, Callback("quick", lobby.connected))
    /\ toast' = NoToast
    /\ last' = Handled("handleQuickMatch", [enabled |-> QuickMatchEnabled])
    /\ ignored' = (socket = NoSocket)
    /\ UNCHANGED <<mgrVars, appVars, sockConn, listeners, game, timers, calls, env>>

\* the acknowledgement callback of handleQuickMatch; response.roomId is
\* absent ("") when the server has queued the player
LobbyQuickAck ==
    \E r \in BagToSet(pending), success \in BOOLEAN, id \in RoomIds \cup {""},
       error \in ServerErrors :
        /\ r.cb = "quick"
        /\ sockConn
        /\ success => error = ""
        /\ ~success => id = ""
        /\ IF success /\ id # ""
           THEN OnJoinRoom(id, Drop(pending, r))
           ELSE /\ pending' = Drop(pending, r)
                /\ lobby' = IF ~success /\ r.alive
                            THEN [lobby EXCEPT !.quickMatchLoading = FALSE]
                            ELSE lobby
                /\ UNCHANGED <<mgrVars, appVars, listeners, game>>
        /\ toast' = NoToast
        /\ last' = Handled("LobbyQuickAck", [success |-> success, alive |-> r.alive,
                                              roomId |-> id, error |-> error])
        /\ ignored' = FALSE
        /\ UNCHANGED <<sockConn, timers, calls, env>>

\* socket.on("match:found") of the lobby
LobbyOnMatchFound ==
    \E id \in RoomIds :
        /\ socket # NoSocket /\ sockConn
        /\ Hears("lobby", "match:found")
        /\ OnJoinRoom(id, pending)
        /\ toast' = NoToast
        /\ last' = Handled("LobbyOnMatchFound", id)
        /\ ignored' = FALSE
        /\ UNCHANGED <<sockConn, timers, calls, env>>

\* onChange of the code field: setJoinRoomId(e.target.value.toUpperCase())
LobbyTypeCode ==
    \E text \in TypedTexts :
        /\ currentScreen = "lobby"
        /\ lobby' = [lobby EXCEPT !.joinRoomId = ToUpperCase(text)]
        /\ toast' = NoToast
        /\ last' = Handled("LobbyTypeCode", text)
        /\ ignored' = FALSE
        /\ UNCHANGED <<mgrVars, appVars, sockConn, listeners, game, pending, timers,
                       calls, env>>

\* LobbyScreen.handleJoinByCode
handleJoinByCode ==
    /\ currentScreen = "lobby"
    /\ IF socket = NoSocket \/ Trim(lobby.joinRoomId) = ""
       THEN UNCHANGED pending
       ELSE /\ CanEmit
            /\ pending' = Emit(pending, Callback("join-code", lobby.connected))
    /\ toast' = NoToast
    /\ last' = Handled("handleJoinByCode", [enabled |-> JoinByCodeEnabled])
    /\ ignored' = (socket = NoSocket \/ Trim(lobby.joinRoomId) = "")
    /\ UNCHANGED <<mgrVars, appVars, sockConn, listeners, lobby, game, timers, calls, env>>

\* the acknowledgement callback of handleJoinByCode
LobbyJoinCodeAck ==
    \E r \in BagToSet(pending), success \in BOOLEAN, id \in RoomIds, error \in ServerErrors :
        /\ r.cb = "join-code"
        /\ sockConn
        /\ success => error = ""
        /\ ~success => id = CHOOSE x \in RoomIds : TRUE
        /\ IF success
           THEN OnJoinRoom(id, Drop(pending, r))
           ELSE /\ pending' = Drop(pending, r)
                /\ UNCHANGED <<mgrVars, appVars, listeners, lobby, game>>
        /\ toast' = NoToast
        /\ last' = Handled("LobbyJoinCodeAck", [success |-> success, alive |-> r.alive,
                                                 roomId |-> id, error |-> error])
        /\ ignored' = FALSE
        /\ UNCHANGED <<sockConn, timers, calls, env>>

\* a run in which the server's payloads are one of each kind
PlainRun ==
    [rooms |-> {[status |-> "playing", playerCount |-> 2, players |-> <<Ana, Beto>>]},
     states |-> {[f \in {"turnPlayerId"} |-> MyId]},
     hands |-> {<<"c1", "c2">>},
     maxPending |-> MaxPending, maxTimers |-> MaxTimers, maxMessages |-> MaxMessages]

\* a run without forced disconnects
SteadyRun == [PlainRun EXCEPT !.maxTimers = 0]

\* a run in which the server's payloads vary, without forced disconnects
DataRun ==
    [rooms |-> Rooms, states |-> PartialGameStates, hands |-> Hands,
     maxPending |-> MaxPending, maxTimers |-> 0, maxMessages |-> MaxMessages]

\* a run about the message log: both rooms, a longer log, no forced disconnect
LogRun ==
    [PlainRun EXCEPT !.rooms = Rooms, !.maxTimers = 0, !.maxMessages = MaxLog]

\* the state after the module is loaded and TrucoGame has rendered first
Start ==
    /\ socket = NoSocket
    /\ created = 0
    /\ live = {}
    /\ calls = <<>>
    /\ sockConn = FALSE
    /\ listeners = {}
    /\ currentScreen = "start"
    /\ roomId = ""
    /\ lobby = LobbyInit
    /\ game = GameInit
    /\ pending = EmptyBag
    /\ timers = EmptyBag
    /\ toast = NoToast
    /\ ignored = FALSE
    /\ last = Handled("", <<>>)

Init == Start /\ env = PlainRun
InitSteady == Start /\ env = SteadyRun
InitData == Start /\ env = DataRun
InitLog == Start /\ env = LogRun

\* calls on the manager's interface by any client of the module
NextManager ==
    \/ CallConnect
    \/ CallDisconnect
    \/ CallGetSocket

SpecManager == Init /\ [][NextManager]_vars

\* the application: the shell, the two screens, the server and the library
Next ==
    \/ TrucoGame_handleStartGame
    \/ TrucoGame_onBack
    \/ TrucoGame_handleBackToLobby
    \/ GameOnConnect
    \/ GameJoinAck
    \/ GameOnDisconnect
    \/ ReconnectTimerFires
    \/ GameRejoinAck
    \/ GameOnRoomUpdate
    \/ GameOnGameUpdate
    \/ GameOnHand
    \/ GameOnMessage
    \/ GameOnEnded
    \/ GameOnError
    \/ handleStartGame
    \/ handlePlayCard
    \/ handleCallTruco
    \/ handleCallEnvido
    \/ handleCallFlor
    \/ handleSkipPhase
    \/ handleAcceptCall
    \/ handleRejectCall
    \/ GameActionAck
    \/ LobbyOnConnect
    \/ LobbyOnDisconnect
    \/ ConnectUnheard
    \/ DisconnectUnheard
    \/ handleCreateRoom
    \/ LobbyCreateAck
    \/ LobbyRoomsAck
    \/ handleJoinCreatedRoom
    \/ LobbyOnRoomsList
    \/ LobbyScreen_handleJoinRoom
    \/ handleQuickMatch
    \/ LobbyQuickAck
    \/ LobbyOnMatchFound
    \/ LobbyTypeCode
    \/ handleJoinByCode
    \/ LobbyJoinCodeAck
    \/ LobbyPollTick
    \/ LobbyOnRoomUpdate

Spec == Init /\ [][Next]_vars

\* reaching the game screen and keeping a connection: the start screen, the
\* lobby's room list, the connection events of both screens
Session ==
    \/ TrucoGame_handleStartGame
    \/ LobbyOnConnect
    \/ LobbyOnDisconnect
    \/ LobbyOnRoomsList
    \/ LobbyScreen_handleJoinRoom
    \/ GameOnConnect
    \/ GameJoinAck
    \/ GameOnDisconnect

\* the game screen's actions, their acknowledgements and the pushes that
\* touch actionInProgress
NextActions ==
    \/ Session
    \/ handleStartGame
    \/ handlePlayCard
    \/ handleCallTruco
    \/ handleCallEnvido
    \/ handleCallFlor
    \/ handleSkipPhase
    \/ handleAcceptCall
    \/ handleRejectCall
    \/ GameActionAck
    \/ GameOnGameUpdate
    \/ GameOnEnded
    \/ GameOnError

SpecActions == InitSteady /\ [][NextActions]_vars

\* the game screen's state as the server's pushes shape it
NextData ==
    \/ Session
    \/ GameOnGameUpdate
    \/ GameOnHand

SpecData == InitData /\ [][NextData]_vars

\* the lobby: creating a room and entering it, leaving the lobby and the
\* game screen, the handle connecting and disconnecting under any screen
NextLobby ==
    \/ TrucoGame_handleStartGame
    \/ TrucoGame_onBack
    \/ TrucoGame_handleBackToLobby
    \/ LobbyOnConnect
    \/ LobbyOnDisconnect
    \/ ConnectUnheard
    \/ DisconnectUnheard
    \/ handleCreateRoom
    \/ LobbyCreateAck
    \/ LobbyRoomsAck
    \/ handleJoinCreatedRoom

SpecLobby == InitSteady /\ [][NextLobby]_vars

\* the screens coming and going over one handle: every navigation of the
\* shell, the connection events under each screen, a push to each screen
NextScreens ==
    \/ Session
    \/ TrucoGame_onBack
    \/ TrucoGame_handleBackToLobby
    \/ ConnectUnheard
    \/ DisconnectUnheard
    \/ GameOnHand
    \/ GameOnError

SpecScreens == InitSteady /\ [][NextScreens]_vars

\* the server answers a request that reached it; nothing obliges the server
\* or the library to connect or to disconnect, nor the user to act
FairScreens ==
    /\ SpecScreens
    /\ WF_vars(GameJoinAck)

\* the game screen's message log and the pushes that write to it
NextLog ==
    \/ Session
    \/ GameOnRoomUpdate
    \/ GameOnMessage
    \/ GameOnEnded
    \/ GameOnError

SpecLog == InitLog /\ [][NextLog]_vars

\* the lobby's requests and their acknowledgements, and coming back to the
\* lobby from the game screen they lead to
NextRequests ==
    \/ TrucoGame_handleStartGame
    \/ TrucoGame_handleBackToLobby
    \/ LobbyOnConnect
    \/ LobbyOnDisconnect
    \/ handleCreateRoom
    \/ LobbyCreateAck
    \/ LobbyRoomsAck
    \/ handleQuickMatch
    \/ LobbyQuickAck
    \/ LobbyOnMatchFound
    \/ LobbyTypeCode
    \/ handleJoinByCode
    \/ LobbyJoinCodeAck

SpecRequests == InitSteady /\ [][NextRequests]_vars

\* the lobby and what makes it ask for the room list
NextPolling ==
    \/ NextLobby
    \/ LobbyPollTick
    \/ LobbyOnRoomUpdate

SpecPolling == InitSteady /\ [][NextPolling]_vars

\* the navigation of the shell and the lobby's requests that end in it
NextNavigation ==
    \/ TrucoGame_handleStartGame
    \/ TrucoGame_onBack
    \/ TrucoGame_handleBackToLobby
    \/ LobbyOnConnect
    \/ handleQuickMatch
    \/ LobbyQuickAck
    \/ LobbyOnMatchFound
    \/ LobbyTypeCode
    \/ handleJoinByCode
    \/ LobbyJoinCodeAck

SpecNavigation == InitSteady /\ [][NextNavigation]_vars

\* playing a card and calling truco over a connection that comes and goes
NextPlay ==
    \/ Session
    \/ handlePlayCard
    \/ handleCallTruco
    \/ GameActionAck
    \/ GameOnGameUpdate

SpecPlay == InitSteady /\ [][NextPlay]_vars

\* the server answers every request that reached it over the connection the
\* request was sent on; nothing obliges the server to push, the library to
\* connect or to disconnect, nor the user to act
FairPlay ==
    /\ SpecPlay
    /\ WF_vars(GameActionAck)
    /\ WF_vars(GameJoinAck)

\* the game screen's reconnect loop, and leaving the game screen while a
\* timer or a rejoin is outstanding
NextReconnect ==
    \/ Session
    \/ TrucoGame_handleBackToLobby
    \/ ReconnectTimerFires
    \/ GameRejoinAck

SpecReconnect == Init /\ [][NextReconnect]_vars

\* the event loop runs a timer that is due, and the server answers a request
\* that reached it; nothing obliges the server or the library to connect or
\* to disconnect, nor the user to act
FairReconnect ==
    /\ SpecReconnect
    /\ WF_vars(ReconnectTimerFires)
    /\ WF_vars(GameRejoinAck)
    /\ WF_vars(GameJoinAck)

(* ------------------------------------------------------------------ *)
(* Claims about the connection manager (checked under SpecManager)     *)
(* ------------------------------------------------------------------ *)
NoCallBetween(op, i, j) == \A k \in (i + 1)..(j - 1) : calls[k].op # op

\* C1: two connect() calls with no disconnect() in between return the same
\* handle, and the second one creates no connection.
C1_ConnectIdempotent ==
    \A i, j \in 1..Len(calls) :
        (/\ i < j
         /\ calls[i].op = "connect"
         /\ calls[j].op = "connect"
         /\ NoCallBetween("disconnect", i, j))
        => (/\ calls[j].ret = calls[i].ret
            /\ calls[j].created = calls[i].created)

C1_Witness ==
    \E i, j \in 1..Len(calls) :
        /\ i < j
        /\ calls[i].op = "connect"
        /\ calls[j].op = "connect"
        /\ NoCallBetween("disconnect", i, j)
        /\ calls[j].ret # NoSocket

\* C2: disconnect() tears the cached handle down and clears the cache:
\* getSocket() then returns null, and the next connect() creates a handle
\* that is not the one torn down.
C2_DisconnectClears ==
    \A i \in 1..Len(calls) :
        calls[i].op = "disconnect"
        => (/\ calls[i].ret \notin calls[i].live
            /\ \A j \in (i + 1)..Len(calls) :
                   NoCallBetween("connect", i, j)
                   => (/\ calls[j].op = "getSocket" => calls[j].ret = NoSocket
                       /\ calls[j].op = "connect"
                          => (/\ calls[j].ret # NoSocket
                              /\ calls[j].ret # calls[i].ret
                              /\ calls[j].ret \in calls[j].live
                              /\ calls[j].created = calls[i].created + 1)))

C2_Witness ==
    \E i, j, k \in 1..Len(calls) :
        /\ i < j
        /\ j < k
        /\ calls[i].op = "disconnect"
        /\ calls[i].ret # NoSocket
        /\ calls[j].op = "getSocket"
        /\ calls[k].op = "connect"
        /\ NoCallBetween("connect", i, k)

\* C3: after any sequence of connect(), disconnect() and getSocket() calls at
\* most one handle created by the manager is live.
C3_AtMostOneLive == Cardinality(live) <= 1

C3_Witness ==
    /\ created >= 2
    /\ Cardinality(live) = 1
    /\ \E i \in 1..Len(calls) : calls[i].op = "disconnect" /\ calls[i].ret # NoSocket

(* ------------------------------------------------------------------ *)
(* Claims about the game screen's actions (checked under SpecActions)  *)
(* ------------------------------------------------------------------ *)
\* the action requests sent and not yet acknowledged
Unacknowledged ==
    BagCardinality([r \in {x \in BagToSet(pending) : x.cb \in ActionLabels} |-> pending[r]])

\* C4 as claimed: at most one action request of the game screen is
\* unacknowledged at any time, whatever the interleaving of user actions,
\* acknowledgements and server pushes. Stated for the states in which the
\* screen shows itself connected to a room being played, where its controls
\* are enabled.
C4_AtMostOneUnacknowledged ==
    (currentScreen = "game" /\ game.connected /\ game.room.status = "playing")
    => Unacknowledged <= 1

\* C4 as amended: while actionInProgress is set, no step sends an action
\* request (an action handler invoked then returns at its guard); the flag is
\* cleared by an acknowledgement and also by a game:update, game:ended or
\* error push, after which a request may be sent while an earlier one is
\* still unacknowledged.
C4_NoSendWhileFlagSet ==
    [][game.actionInProgress # NoAction => Unacknowledged' <= Unacknowledged]_vars

C4_Witness ==
    /\ ignored
    /\ currentScreen = "game"
    /\ game.actionInProgress # NoAction
    /\ Unacknowledged = 1

(* ------------------------------------------------------------------ *)
(* Claims about the reconnect loop                                     *)
(* ------------------------------------------------------------------ *)
\* base 1s, doubling each attempt, capped at 10s: 1s, 2s, 4s, 8s, 10s
ClaimedDelay(k) == Min(BaseDelayMs * Pow2(k - 1), MaxDelayMs)

\* C5 as claimed: the timer of the k-th consecutive reconnect attempt is set
\* with a delay of 1s, 2s, 4s, 8s, 10s for k = 1..5.
C5_DelayOfAttempt ==
    \A t \in BagToSet(timers) : t.delay = ClaimedDelay(t.attempt)

\* the attempts of the mounted game screen whose timer has not run yet
Scheduled == {t \in BagToSet(timers) : t.alive}

\* C6 as claimed: after a forced disconnect, a reconnect attempt that has been
\* made (its timer has run) and has not succeeded is followed by another
\* attempt being scheduled, unless an attempt succeeds or five were made.
C6_RetryUntilSuccessOrFive ==
    (currentScreen = "game" /\ game.reconnecting /\ Scheduled = {})
    ~> \/ Scheduled # {}
       \/ ~game.reconnecting
       \/ game.reconnectAttempts >= maxReconnectAttempts
       \/ currentScreen # "game"

\* C7 as claimed, for a forced disconnect after which no attempt succeeds: the
\* attempts fail one after the other and the terminal notice is shown.
C7_NoticeAfterFailedAttempts ==
    (currentScreen = "game" /\ game.reconnecting)
    ~> \/ toast = TerminalNotice
       \/ ~game.reconnecting
       \/ currentScreen # "game"

(* ------------------------------------------------------------------ *)
(* Claims about the pushes (checked under SpecData)                    *)
(* ------------------------------------------------------------------ *)
\* C8: when a game:update push is handled, the game state afterwards has the
\* pushed value for every field of the push and the value it had before for
\* every field the push leaves out, and no other field.
C8_UpdateMerges ==
    [][last'.op = "GameOnGameUpdate"
       => LET updated == last'.arg
              prev == game.gameState
              after == game'.gameState
          IN /\ DOMAIN after = DOMAIN prev \cup DOMAIN updated
             /\ \A f \in DOMAIN updated : after[f] = updated[f]
             /\ \A f \in DOMAIN prev \ DOMAIN updated : after[f] = prev[f]]_vars

C8_Witness ==
    /\ last.op = "GameOnGameUpdate"
    /\ DOMAIN last.arg = {"phase"}
    /\ DOMAIN game.gameState = {"phase", "turnPlayerId"}
    /\ game.gameState["turnPlayerId"] = "P2"

\* C9: when a game:hand push is handled, the hand afterwards is the pushed
\* list, card for card and in its order, whatever the hand was before.
C9_HandIsPushedList ==
    last.op = "GameOnHand" => game.playerHand = last.arg

C9_Witness ==
    /\ last.op = "GameOnHand"
    /\ last.arg = <<"c2", "c1">>
    /\ game.playerHand = <<"c2", "c1">>

(* ------------------------------------------------------------------ *)
(* Claims about the lobby (checked under SpecLobby)                    *)
(* ------------------------------------------------------------------ *)
\* C10: when a create-room request is acknowledged with success, room id r
\* and code c, the lobby that sent it (still on screen) displays c as the
\* access code and holds r as the room to enter, and its enter-room action
\* navigates to the game screen with the room id the lobby holds.
C10_CreatedRoomShownAndEntered ==
    [][/\ (/\ last'.op = "LobbyCreateAck"
           /\ last'.arg.success
           /\ last'.arg.alive
           /\ last'.arg.code # "")
          => (/\ DisplayedCode' = last'.arg.code
              /\ lobby'.createdRoomId = last'.arg.roomId)
       /\ last'.op = "handleJoinCreatedRoom"
          => (/\ lobby.createdRoomId # ""
              /\ currentScreen' = "game"
              /\ roomId' = lobby.createdRoomId)]_vars

C10_Witness ==
    /\ last.op = "handleJoinCreatedRoom"
    /\ currentScreen = "game"
    /\ roomId = "R2"

(* ------------------------------------------------------------------ *)
(* Claims about failures and the in-flight flags                       *)
(* ------------------------------------------------------------------ *)
\* the acknowledgements of the requests a user action sends
ActionAcks == {"GameActionAck", "LobbyCreateAck", "LobbyQuickAck", "LobbyJoinCodeAck"}

\* C11 as claimed: after an acknowledgement with success=false of an action
\* of the lobby or of the game screen (handled by the screen on display), a
\* notice is shown that carries the server's message, or a fallback text when
\* the server sent none, and the action's in-flight flag is clear.
C11_FailureSurfaced ==
    (last.op \in ActionAcks /\ ~last.arg.success /\ last.arg.alive)
    => /\ toast # NoToast
       /\ toast.description # ""
       /\ last.arg.error # "" => toast.description = last.arg.error
       /\ last.op = "GameActionAck" => game.actionInProgress = NoAction
       /\ last.op = "LobbyCreateAck" => ~lobby.loading
       /\ last.op = "LobbyQuickAck" => ~lobby.quickMatchLoading

\* C12: in the game screen on display, actionInProgress is null right after
\* one of its action acknowledgements is handled, with success or with
\* failure, and right after a game:update or a game:ended push is handled.
C12_FlagClearedAfter ==
    (\/ last.op = "GameActionAck" /\ last.arg.alive
     \/ last.op \in {"GameOnGameUpdate", "GameOnEnded"})
    => game.actionInProgress = NoAction

C12_Witness ==
    /\ last.op = "GameActionAck"
    /\ ~last.arg.success
    /\ last.arg.alive
    /\ currentScreen = "game"
    /\ game.actionInProgress = NoAction
    /\ toast = Toast("Error", "denied")

\* the requests of the lobby on display that are sent and not acknowledged
LobbyRequests == {"create", "quick", "join-code"}
LobbyUnacknowledged ==
    BagCardinality([r \in {x \in BagToSet(pending) : x.cb \in LobbyRequests /\ x.alive}
                    |-> pending[r]])

\* C13 as claimed: while a request of the lobby (create room, quick match or
\* join by code) is sent and not acknowledged, pressing one of the lobby's
\* request buttons, enabled as rendered, submits no new request.
C13_NoNewLobbyRequest ==
    [][(/\ currentScreen = "lobby"
        /\ LobbyUnacknowledged >= 1
        /\ last'.op \in {"handleCreateRoom", "handleQuickMatch", "handleJoinByCode"}
        /\ last'.arg.enabled)
       => LobbyUnacknowledged' <= LobbyUnacknowledged]_vars

(* ------------------------------------------------------------------ *)
(* Claims about the message log (checked under SpecLog)                *)
(* ------------------------------------------------------------------ *)
\* the log after a step is the log before it with one entry at its end
OneMore(before, after) ==
    /\ Len(after) = Len(before) + 1
    /\ \A i \in 1..Len(before) : after[i] = before[i]

\* C14: each error push the game screen handles adds exactly one entry to
\* the end of the message log, whose text carries the pushed message, and
\* shows one notice whose description is that message.
C14_ErrorLoggedAndShown ==
    [][last'.op = "GameOnError"
       => /\ OneMore(game.messages, game'.messages)
          /\ game'.messages[Len(game'.messages)].text = "Error: " \o last'.arg
          /\ toast'.title = "Error"
          /\ toast'.description = last'.arg]_vars

C14_Witness ==
    /\ last.op = "GameOnError"
    /\ Len(game.messages) = 2
    /\ game.messages[2].text = "Error: denied"
    /\ game.messages[1].text # "Error: denied"
    /\ toast = Toast("Error", "denied")

\* the pushes that write to the message log
LogWriters == {"GameOnMessage", "GameOnError", "GameOnRoomUpdate", "GameOnEnded"}

\* C16: while the game screen is on display its message log only grows at
\* its end, one entry per step, and only in a step that handles a
\* game:message, error, room:update or game:ended push, the new last entry
\* being the one that push produces: the entries stand in the order in
\* which their events were handled, none moved, dropped or repeated.
C16_LogAppendOnly ==
    [][(currentScreen = "game" /\ currentScreen' = "game")
       => \/ /\ game'.messages = game.messages
             /\ last'.op \notin {"GameOnMessage", "GameOnError"}
          \/ /\ OneMore(game.messages, game'.messages)
             /\ last'.op \in LogWriters
             /\ LET new == game'.messages[Len(game'.messages)]
                IN /\ last'.op = "GameOnMessage" => new = last'.arg
                   /\ last'.op = "GameOnError" => new.text = "Error: " \o last'.arg
                   /\ last'.op = "GameOnRoomUpdate"
                      => \E i \in 1..Len(last'.arg.players) :
                            /\ ~last'.arg.players[i].connected
                            /\ new.text = last'.arg.players[i].name \o " se desconecto"
                   /\ last'.op = "GameOnEnded" => new.type = "winner"]_vars

C16_Witness ==
    /\ currentScreen = "game"
    /\ Len(game.messages) = 2
    /\ game.messages[1] \in GameMessages
    /\ game.messages[2].type = "winner"
    /\ last.op = "GameOnEnded"

(* ------------------------------------------------------------------ *)
(* Claims about the screens and the handle                             *)
(* ------------------------------------------------------------------ *)
\* the handlers registered are those of the screen on display, one for
\* every event of its set, and no other
HandlersOf(screen) ==
    IF screen = "game" THEN {<<e, "game">> : e \in GameEvents}
    ELSE IF screen = "lobby" THEN {<<e, "lobby">> : e \in LobbyEvents}
    ELSE {}

\* C15: while a screen is on display a handler of it is registered for every
\* event of its set; once it is gone none of its handlers is registered, and
\* no step (the delivery of a push included) changes its state.
C15_HandlersFollowScreen ==
    [][/\ listeners' = HandlersOf(currentScreen')
       /\ (currentScreen # "game" /\ currentScreen' # "game") => game' = game
       /\ (currentScreen # "lobby" /\ currentScreen' # "lobby") => lobby' = lobby]_vars

C15_Witness ==
    /\ last.op = "DisconnectUnheard"
    /\ currentScreen = "start"
    /\ listeners = {}
    /\ \E r \in BagToSet(pending) : r.cb = "join" /\ ~r.alive

\* C18: however the screens are mounted, unmounted and navigated, the
\* session creates at most one handle, it stays open and cached, and it is
\* the handle every screen gets from connect().
C18_OneHandleForAllScreens ==
    /\ created <= 1
    /\ currentScreen # "start" => (socket = 1 /\ live = {1})
    /\ socket # NoSocket => (socket = 1 /\ live = {1})

C18_Witness ==
    /\ last.op = "TrucoGame_handleStartGame"
    /\ created = 1
    /\ \E r \in BagToSet(pending) : r.cb = "join" /\ ~r.alive

\* C19: getSocket() returns the cached handle, null when there is none, and
\* leaves the manager as it was; disconnect() called with no cached handle
\* leaves the manager as it was.
C19_GetSocketAndIdleDisconnect ==
    [][Len(calls') = Len(calls) + 1
       => LET call == calls'[Len(calls')]
          IN /\ call.op = "getSocket"
                => (call.ret = socket /\ mgrVars' = mgrVars)
             /\ (call.op = "disconnect" /\ socket = NoSocket)
                => mgrVars' = mgrVars]_vars

C19_Witness ==
    \E i, j, k \in 1..Len(calls) :
        /\ calls[i].op = "disconnect" /\ calls[i].ret = NoSocket
        /\ calls[j].op = "getSocket" /\ calls[j].ret = NoSocket
        /\ calls[k].op = "getSocket" /\ calls[k].ret # NoSocket

\* what the game screen holds of the game: gameState, playerHand, room
Held(g) == <<g.gameState, g.playerHand, g.room>>

\* C17: a step of an action handler of the game screen, and the handling of
\* an action's acknowledgement, leave gameState, playerHand and room as they
\* were; while the screen is on display these change only in a step that
\* handles a push or the acknowledgement of a player:join.
C17_ActionsLeaveGameData ==
    [][/\ last'.op \in {"ActionHandler", "GameActionAck"} => Held(game') = Held(game)
       /\ (currentScreen = "game" /\ currentScreen' = "game" /\ Held(game') # Held(game))
          => last'.op \in {"GameOnGameUpdate", "GameOnHand", "GameOnRoomUpdate",
                           "GameJoinAck", "GameRejoinAck"}]_vars

C17_Witness ==
    /\ last.op = "GameActionAck"
    /\ last.arg.cb = "playing-card"
    /\ last.arg.alive
    /\ game.playerHand = <<"c1", "c2">>
    /\ game.actionInProgress = NoAction

\* C20 as claimed: a game screen on display over an established connection,
\* the one the lobby already holds included, comes to show itself connected,
\* which it does in the step that sends its player:join, unless the
\* connection is lost or the screen left first.
C20_JoinsWhenConnected ==
    (currentScreen = "game" /\ sockConn)
    ~> \/ game.connected
       \/ ~sockConn
       \/ currentScreen # "game"

(* ------------------------------------------------------------------ *)
(* Claims about playing (checked under SpecPlay and FairPlay)          *)
(* ------------------------------------------------------------------ *)
\* C21 as claimed: with a server that acknowledges every request it receives,
\* a game screen whose actionInProgress is set and whose request is with the
\* server (the handle is connected) comes to have the flag cleared, or is
\* left, also when the connection is lost while the request is outstanding.
C21_FlagEventuallyCleared ==
    (currentScreen = "game" /\ game.actionInProgress # NoAction /\ sockConn)
    ~> \/ game.actionInProgress = NoAction
       \/ currentScreen # "game"

\* the acknowledgement callback of a play-card request
PlayCard == Callback("playing-card", FALSE)

\* C24: a step sends a play-card request only from a state in which a handle
\* is cached, actionInProgress is null and gameState.turnPlayerId equals
\* currentPlayerId.
C24_PlayCardGuard ==
    [][Copies(pending', PlayCard) > Copies(pending, PlayCard)
       => /\ socket # NoSocket
          /\ game.actionInProgress = NoAction
          /\ TurnPlayerId(game.gameState) = game.currentPlayerId]_vars

C24_Witness ==
    /\ last.op = "ActionHandler"
    /\ ~ignored
    /\ game.actionInProgress = "playing-card"
    /\ Copies(pending, PlayCard) = 1
    /\ TurnPlayerId(game.gameState) = MyId

(* ------------------------------------------------------------------ *)
(* Claims about disconnects (checked under SpecReconnect)              *)
(* ------------------------------------------------------------------ *)
\* C22: a step sets a reconnect timer, or puts the game screen in
\* "reconnecting", only when it handles a disconnect whose reason is
\* "io server disconnect"; the handling of a disconnect with another reason
\* sets connected to false and changes nothing else of the screen, sets no
\* timer and sends nothing.
C22_ReconnectOnlyWhenForced ==
    [][/\ (\/ BagCardinality(timers') > BagCardinality(timers)
           \/ game'.reconnecting /\ ~game.reconnecting
           \/ game'.reconnectAttempts > game.reconnectAttempts)
          => (last'.op = "disconnect" /\ last'.arg = ServerDisconnect)
       /\ (last'.op = "disconnect" /\ last'.arg # ServerDisconnect)
          => (/\ game' = [game EXCEPT !.connected = FALSE]
              /\ timers' = timers
              /\ pending' = pending)]_vars

C22_Witness ==
    /\ last.op = "disconnect"
    /\ last.arg = "transport close"
    /\ currentScreen = "game"
    /\ ~game.connected
    /\ ~game.reconnecting
    /\ game.room # NoRoom
    /\ timers = EmptyBag

(* ------------------------------------------------------------------ *)
(* Claims about the room (checked under SpecLog)                       *)
(* ------------------------------------------------------------------ *)
\* C23: right after a room:update push is handled, the game screen's room is
\* the pushed snapshot, whatever room it held before.
C23_RoomIsPushedSnapshot ==
    last.op = "GameOnRoomUpdate" => game.room = last.arg

C23_Witness ==
    /\ last.op = "GameOnRoomUpdate"
    /\ last.arg.status = "waiting"
    /\ game.room.status = "waiting"
    /\ game.room.players = <<Ana>>
    /\ Len(game.messages) >= 1
    /\ game.messages[1].text = "Beto se desconecto"

(* ------------------------------------------------------------------ *)
(* Claims about navigation (checked under SpecNavigation)              *)
(* ------------------------------------------------------------------ *)
\* C25 as claimed: a step makes the game screen the current screen only from
\* a state in which the lobby is the current screen, and the acknowledgement
\* of a quick-match or join-by-code request whose lobby is no longer on
\* display leaves the current screen and the room id as they were.
C25_NavigationOnlyFromLobby ==
    [][/\ (currentScreen' = "game" /\ currentScreen # "game")
          => currentScreen = "lobby"
       /\ (last'.op \in {"LobbyQuickAck", "LobbyJoinCodeAck"} /\ ~last'.arg.alive)
          => appVars' = appVars]_vars

(* ------------------------------------------------------------------ *)
(* Claims about the unmounted game screen (checked under SpecReconnect) *)
(* ------------------------------------------------------------------ *)
\* the requests of game screens no longer on display that wait for their
\* acknowledgement
OrphanRequests ==
    BagCardinality([r \in {x \in BagToSet(pending) : x.cb \notin LobbyCallbacks /\ ~x.alive}
                    |-> pending[r]])

\* C26 as claimed: a game screen that has unmounted sends no request; the
\* requests of unmounted game screens grow in number only in the step that
\* unmounts one (its outstanding requests become theirs), and not when a
\* reconnect timer set before the unmount runs.
C26_NoRequestAfterUnmount ==
    [][last'.op # "TrucoGame_handleBackToLobby"
       => OrphanRequests' <= OrphanRequests]_vars

(* ------------------------------------------------------------------ *)
(* Claims about the reconnect counter (checked under SpecReconnect)    *)
(* ------------------------------------------------------------------ *)
\* C27: reconnectAttempts.current of the game screen is always one of
\* 0..5; it is 0 right after the screen handles a connect event, and right
\* after the rejoin of one of its reconnect attempts is acknowledged with
\* success.
C27_CounterInRange ==
    /\ game.reconnectAttempts \in 0..maxReconnectAttempts
    /\ last.op = "GameOnConnect" => game.reconnectAttempts = 0
    /\ (last.op = "GameRejoinAck" /\ last.arg.success /\ last.arg.alive)
       => game.reconnectAttempts = 0

C27_Witness ==
    /\ last.op = "GameRejoinAck"
    /\ last.arg.success
    /\ last.arg.alive
    /\ currentScreen = "game"
    /\ game.reconnectAttempts = 0
    /\ ~game.reconnecting
    /\ toast = Toast("Reconectado", "Te has reconectado exitosamente al juego.")

(* ------------------------------------------------------------------ *)
(* Claims about the room list (checked under SpecPolling)              *)
(* ------------------------------------------------------------------ *)
\* the rooms:list requests sent and not yet acknowledged
RoomListRequests ==
    BagCardinality([r \in {x \in BagToSet(pending) : x.cb = "rooms"} |-> pending[r]])

\* C28 as claimed: the step in which the lobby handles a connect event sends
\* a rooms:list request, and so does every run of the lobby's interval
\* callback while the lobby shows itself connected.
C28_LobbyPollsRoomList ==
    [][/\ last'.op = "LobbyOnConnect"
          => RoomListRequests' = RoomListRequests + 1
       /\ (last'.op = "LobbyPollTick" /\ lobby.connected)
          => RoomListRequests' = RoomListRequests + 1]_vars

====
